---------------------------- MODULE Spec2Model ----------------------------
(***************************************************************************)
(* A model of easy_i2c_adapter/main.c: the token decoder and command       *)
(* state machine (process_line, decode_token), the M2M chunked transfers   *)
(* (print_buf_m2m_ascii, print_buf_m2m_bin) and the bit-banged address     *)
(* probe (bitbang_i2c_addr).                                               *)
(*                                                                         *)
(* Tokens are sequences of one-character strings, so that strcmp, strncmp  *)
(* and sscanf are modelled by what they do to the characters.              *)
(***************************************************************************)
EXTENDS Integers, Sequences, FiniteSets, TLC

(***************************************************************************)
(* Program constants (#define lines and array sizes of main.c).            *)
(***************************************************************************)
MODE_ASCII == 0
MODE_BIN == 1
TOKEN_RESULT_ERROR == 0
TOKEN_RESULT_OK == 1
TOKEN_RESULT_LINE_COMPLETE == 2
TOKEN_PROGRESS_NONE == 0
TOKEN_PROGRESS_SEND == 1
M2M_RESPONSE_OK_CHAR == "."
M2M_RESPONSE_CONTINUE_CHAR == "&"
M2M_RESPONSE_ERR_CHAR == "X"
M2M_RESPONSE_PROT_ERR_CHAR == "~"
\* uint8_t byte_buffer[256]
BufCap == 256
\* uint8_t arithmetic is modulo 2^8, uint16_t modulo 2^16
Uint8Mod == 256
Uint16Mod == 65536
\* chunk sizes of the two M2M transfers: (i % 16) == 15 and (i % 64) == 63
AsciiChunk == 16
BinChunk == 64

(***************************************************************************)
(* Bounds of the model (not program constants).                            *)
(***************************************************************************)
\* bytes:<n> is issued with n in -1..MaxN in the specification Spec
MaxN == 1
\* longest buffer handed to a chunked transfer in the specification SpecXfer
MaxLen == 130
\* most byte tokens of one send in the specification SpecLong
MaxToks == 258
\* most handshake replies the host has ready during one recv in Spec
MaxReplies == 1

(***************************************************************************)
(* Characters and the C library functions the decoder calls.               *)
(***************************************************************************)
DecDigits == <<"0", "1", "2", "3", "4", "5", "6", "7", "8", "9">>
HexUpper == DecDigits \o <<"A", "B", "C", "D", "E", "F">>
HexLower == DecDigits \o <<"a", "b", "c", "d", "e", "f">>

IsDigit(c) == \E i \in 1..10 : DecDigits[i] = c
IsHexDigit(c) == \E i \in 1..16 : HexUpper[i] = c \/ HexLower[i] = c
DigitVal(c) == CHOOSE i \in 0..9 : DecDigits[i + 1] = c
HexVal(c) == CHOOSE i \in 0..15 : HexUpper[i + 1] = c \/ HexLower[i + 1] = c

\* the characters of s after the first n
Drop(s, n) == SubSeq(s, n + 1, Len(s))

\* strcmp(token, lit) == 0
StrEq(tok, lit) == tok = lit
\* strncmp(token, lit, n) == 0 for a literal of exactly n characters: the
\* comparison stops with a difference at the token's terminator when the
\* token is shorter than n
StrNEq(tok, lit, n) == Len(tok) >= n /\ SubSeq(tok, 1, n) = SubSeq(lit, 1, n)

\* length of the longest prefix of s made of decimal (hex) digits, at most w
RECURSIVE DigitRun(_, _)
DigitRun(s, w) ==
    IF w = 0 \/ s = <<>> \/ ~IsDigit(Head(s)) THEN 0
    ELSE 1 + DigitRun(Tail(s), w - 1)
RECURSIVE HexRun(_, _)
HexRun(s, w) ==
    IF w = 0 \/ s = <<>> \/ ~IsHexDigit(Head(s)) THEN 0
    ELSE 1 + HexRun(Tail(s), w - 1)

RECURSIVE DecValue(_, _)
DecValue(s, acc) ==
    IF s = <<>> THEN acc ELSE DecValue(Tail(s), acc * 10 + DigitVal(Head(s)))
\* the digits of a hexadecimal number read as if the base were ten
RECURSIVE HexValueBase10(_, _)
HexValueBase10(s, acc) ==
    IF s = <<>> THEN acc
    ELSE HexValueBase10(Tail(s), acc * 10 + HexVal(Head(s)))
RECURSIVE HexValue(_, _)
HexValue(s, acc) ==
    IF s = <<>> THEN acc ELSE HexValue(Tail(s), acc * 16 + HexVal(Head(s)))

\* sscanf(s, "%d", &v): an optional sign, then the longest run of decimal
\* digits; the conversion fails, and v is not assigned, when there is no digit
ScanDec(s) ==
    LET signed == s # <<>> /\ Head(s) \in {"-", "+"}
        body == IF signed THEN Tail(s) ELSE s
        n == DigitRun(body, Len(body))
        mag == DecValue(SubSeq(body, 1, n), 0)
    IN  [ok |-> n > 0,
         val |-> IF signed /\ Head(s) = "-" THEN 0 - mag ELSE mag]

\* sscanf(s, "%02X", &v): at most two characters are read: an optional sign,
\* then hex digits; the conversion fails when there is no digit.  The value
\* is assigned to an unsigned int.
ScanHex2(s) ==
    LET signed == s # <<>> /\ Head(s) \in {"-", "+"}
        body == IF signed THEN Tail(s) ELSE s
        n == HexRun(body, IF signed THEN 1 ELSE 2)
        mag == HexValue(SubSeq(body, 1, n), 0)
    IN  [ok |-> n > 0,
         val |-> IF signed /\ Head(s) = "-" THEN 0 - mag ELSE mag]

\* conversion of an int or unsigned int to uint8_t and to uint16_t
ToU8(v) == v % Uint8Mod
ToU16(v) == v % Uint16Mod

(***************************************************************************)
(* The host's side of the wire: how numbers are spelled in tokens.         *)
(***************************************************************************)
RECURSIVE DecStrNat(_)
DecStrNat(n) ==
    IF n < 10 THEN <<DecDigits[n + 1]>>
    ELSE DecStrNat(n \div 10) \o <<DecDigits[(n % 10) + 1]>>
DecStr(n) == IF n < 0 THEN <<"-">> \o DecStrNat(0 - n) ELSE DecStrNat(n)
HexStr2(v) == <<HexUpper[(v \div 16) + 1], HexUpper[(v % 16) + 1]>>
HexStr2Lower(v) == <<HexLower[(v \div 16) + 1], HexLower[(v % 16) + 1]>>

\* the command keywords of decode_token
S_device == <<"d", "e", "v", "i", "c", "e", "?">>
S_bin == <<"b", "i", "n">>
S_bytes == <<"b", "y", "t", "e", "s", ":">>
S_sendhold == <<"s", "e", "n", "d", "+", "h", "o", "l", "d">>
S_tryaddr == <<"t", "r", "y", "a", "d", "d", "r", ":">>
S_tryaddr0x == S_tryaddr \o <<"0", "x">>
S_send == <<"s", "e", "n", "d">>
S_recv == <<"r", "e", "c", "v">>
S_m2m_resp == <<"m", "2", "m", "_", "r", "e", "s", "p", ":">>
S_addr == <<"a", "d", "d", "r", ":">>
S_addr0x == S_addr \o <<"0", "x">>
S_noecho == <<"n", "o", "e", "c", "h", "o">>
S_end_tok == <<"e", "n", "d", "_", "t", "o", "k">>

(***************************************************************************)
(* State.                                                                  *)
(***************************************************************************)
VARIABLES
    \* the globals of main.c
    input_mode, m2m_resp, do_echo, i2c_addr, expected_num, byte_buffer,
    byte_buffer_index, token_progress, do_repeated_start,
    \* the two bus pins: function, direction, output level and pull
    pins,
    \* where the control thread is: "main" (the loop of main, between two
    \* tokens of process_line), "xfer" (inside print_buf_m2m_ascii or
    \* print_buf_m2m_bin), "probe" (inside bitbang_i2c_addr), "fault" (halted)
    pc,
    \* the characters written to the host by the command being executed
    out,
    \* the bus transactions requested by the command being executed
    bus,
    \* the kind and the result of the token decoded last
    last,
    \* history of the send started last, kept while only byte tokens and line
    \* ends follow it: the count declared when it started, the byte tokens
    \* supplied since, whether a line ended before the payload was complete,
    \* and the bus writes it caused
    run,
    \* the chunked transfer in progress (print_buf_m2m_*): its locals
    xf,
    \* the probe in progress (bitbang_i2c_addr): its locals and the bus lines
    pr,
    \* the line buffer of scan_uart_input: the bytes stored below the cursor
    \* since the cursor was last reset (what lies at or above the cursor is
    \* stale and is never read), and the cursor
    uart_buffer, uart_buffer_index,
    \* the bytes the host has sent that getchar_timeout_us has not returned yet
    wire,
    \* process_line in progress: its arguments buf and len and its locals i,
    \* j and token (the characters token holds below j)
    pl

globals == <<input_mode, m2m_resp, do_echo, i2c_addr, expected_num,
             byte_buffer, byte_buffer_index, token_progress,
             do_repeated_start>>
vars == <<input_mode, m2m_resp, do_echo, i2c_addr, expected_num, byte_buffer,
          byte_buffer_index, token_progress, do_repeated_start,
          pins, pc, out, bus, last, run, xf, pr,
          uart_buffer, uart_buffer_index, wire, pl>>
\* what decode_token and the functions it calls never touch
framer == <<uart_buffer, uart_buffer_index, wire>>

(***************************************************************************)
(* Output items.  One item per putchar or printf: a status sentinel, a     *)
(* payload byte (as "%02X " text or raw), or human-readable text.          *)
(***************************************************************************)
Ctl(ch) == [k |-> "ctl", c |-> <<ch>>, b |-> 0]
\* printf("%02X ", b): two upper-case hex digits and a space
HexItem(b) == [k |-> "data", c |-> HexStr2(b) \o <<" ">>, b |-> b]
\* putchar(b)
RawItem(b) == [k |-> "data", c |-> <<"raw">>, b |-> b]
Text(what, n) == [k |-> "text", c |-> <<what>>, b |-> n]

(***************************************************************************)
(* The bus pins and the bit-banged probe, bitbang_i2c_addr.                *)
(***************************************************************************)
I2C_SDA_PIN == 14
I2C_SCL_PIN == 15
\* the addresses of the devices on the bus are a set; the acknowledge sample
\* is a sequence, empty until gpio_get has run
NoDevs == {}
NoAck == <<>>

\* after i2c_setup: both pins on the I2C function with pull-ups
PinI2C == [func |-> "I2C", dir |-> "in", outv |-> 0, pull |-> "up"]
PinsAfterSetup == [p \in {I2C_SDA_PIN, I2C_SCL_PIN} |-> PinI2C]

\* the i-th bit clocked out (i = 0 first): addr <<= 1; addr |= 1; then the
\* top bit of addr, which is shifted left once per iteration
AddrByte(val) == (((ToU8(val) * 2) % Uint8Mod) \div 2) * 2 + 1
\* a faulty shift that clocks the byte out least significant bit first
AddrBitLsbFirst(val, i) == (AddrByte(val) \div (2 ^ i)) % 2
AddrBit(val, i) == (AddrByte(val) \div (2 ^ (7 - i))) % 2

\* the SDK and helper calls of bitbang_i2c_addr, in program order
RECURSIVE AddrBitOps(_, _)
AddrBitOps(val, i) ==
    IF i = 8 THEN <<>>
    ELSE << <<(IF AddrBit(val, i) = 1 THEN "pullup_gpio" ELSE "pulldown_gpio"),
              I2C_SDA_PIN>>,
            <<"pullup_gpio", I2C_SCL_PIN>>,
            <<"pulldown_gpio", I2C_SCL_PIN>> >> \o AddrBitOps(val, i + 1)

ProbeRestoreOps ==
    << <<"i2c_init", 0>>,
       <<"gpio_set_function_i2c", I2C_SDA_PIN>>,
       <<"gpio_set_function_i2c", I2C_SCL_PIN>>,
       <<"gpio_pull_up", I2C_SDA_PIN>>,
       <<"gpio_pull_up", I2C_SCL_PIN>> >>

\* a faulty probe that returns without converting back to I2C mode
ProbeProgramNoRestore(val) ==
    << <<"gpio_init", I2C_SDA_PIN>>,
       <<"gpio_init", I2C_SCL_PIN>>,
       <<"pullup_gpio", I2C_SDA_PIN>>,
       <<"pullup_gpio", I2C_SCL_PIN>>,
       <<"pulldown_gpio", I2C_SDA_PIN>>,
       <<"pulldown_gpio", I2C_SCL_PIN>> >>
    \o AddrBitOps(val, 0)
    \o << <<"pullup_gpio", I2C_SDA_PIN>>,
          <<"pullup_gpio", I2C_SCL_PIN>>,
          <<"gpio_get", I2C_SDA_PIN>>,
          <<"pulldown_gpio", I2C_SCL_PIN>>,
          <<"pullup_gpio", I2C_SCL_PIN>>,
          <<"pullup_gpio", I2C_SDA_PIN>> >>

ProbeProgram(val) ==
    << <<"gpio_init", I2C_SDA_PIN>>,
       <<"gpio_init", I2C_SCL_PIN>>,
       <<"pullup_gpio", I2C_SDA_PIN>>,
       <<"pullup_gpio", I2C_SCL_PIN>>,
       <<"pulldown_gpio", I2C_SDA_PIN>>,
       <<"pulldown_gpio", I2C_SCL_PIN>> >>
    \o AddrBitOps(val, 0)
    \o << <<"pullup_gpio", I2C_SDA_PIN>>,
          <<"pullup_gpio", I2C_SCL_PIN>>,
          <<"gpio_get", I2C_SDA_PIN>>,
          <<"pulldown_gpio", I2C_SCL_PIN>>,
          <<"pullup_gpio", I2C_SCL_PIN>>,
          <<"pullup_gpio", I2C_SDA_PIN>> >>
    \o ProbeRestoreOps

\* what one call does to a pin's configuration
PinAfter(p, call) ==
    CASE call = "gpio_init" -> [p EXCEPT !.func = "SIO", !.dir = "in", !.outv = 0]
      [] call = "pullup_gpio" -> [p EXCEPT !.dir = "in", !.pull = "up"]
      [] call = "pulldown_gpio" -> [p EXCEPT !.dir = "out", !.outv = 0]
      [] call = "gpio_set_function_i2c" -> [p EXCEPT !.func = "I2C"]
      [] call = "gpio_pull_up" -> [p EXCEPT !.pull = "up"]
      [] OTHER -> p

\* a pin pulls its line low when it is a GPIO output at level 0
DrivesLow(p) == p.func = "SIO" /\ p.dir = "out" /\ p.outv = 0

\* the address a device has seen: the first seven bits sampled
RECURSIVE BitsValue(_, _)
BitsValue(bits, acc) ==
    IF bits = <<>> THEN acc ELSE BitsValue(Tail(bits), acc * 2 + Head(bits))

\* a device whose address is in dev holds the data line low for the ninth
\* clock of a transfer that started with a start condition and carried its
\* address
DevAcks(m, dev) ==
    /\ m.started
    /\ m.falls = 9
    /\ Len(m.seen) >= 8
    /\ BitsValue(SubSeq(m.seen, 1, 7), 0) \in dev

SclLevel(m) == IF DrivesLow(m.pins[I2C_SCL_PIN]) THEN 0 ELSE 1
SdaLevel(m, dev) ==
    IF DrivesLow(m.pins[I2C_SDA_PIN]) \/ DevAcks(m, dev) THEN 0 ELSE 1

\* the locals of a probe and what the bus has seen of it
ProbeIdle ==
    [pins |-> PinsAfterSetup, at |-> 0, val |-> 0, dev |-> NoDevs, ack |-> NoAck, started |-> FALSE,
     seen |-> <<>>, falls |-> 0, wave |-> <<>>]

\* one call of the program, applied to the pins and the probe's record
ApplyOp(m, op, dev) ==
    LET call == op[1]
        pin == op[2]
        m1 == IF pin \in DOMAIN m.pins
              THEN [m EXCEPT !.pins[pin] = PinAfter(m.pins[pin], call)]
              ELSE m
        scl0 == SclLevel(m)
        scl1 == SclLevel(m1)
        sda0 == SdaLevel(m, dev)
        \* edges of the clock first: the device reacts to them
        m2 == [m1 EXCEPT
                 !.falls = IF scl0 = 1 /\ scl1 = 0 THEN @ + 1 ELSE @,
                 !.seen = IF scl0 = 0 /\ scl1 = 1 /\ m.started
                          THEN Append(@, sda0) ELSE @]
        sda1 == SdaLevel(m2, dev)
        m3 == [m2 EXCEPT
                 !.started = IF scl0 = 1 /\ scl1 = 1 /\ sda0 = 1 /\ sda1 = 0
                             THEN TRUE
                             ELSE IF scl0 = 1 /\ scl1 = 1 /\ sda0 = 0 /\ sda1 = 1
                             THEN FALSE ELSE @,
                 !.seen = IF scl0 = 1 /\ scl1 = 1 /\ sda0 = 1 /\ sda1 = 0
                          THEN <<>> ELSE @,
                 !.falls = IF scl0 = 1 /\ scl1 = 1 /\ sda0 = 1 /\ sda1 = 0
                           THEN 0 ELSE @]
    IN  [m3 EXCEPT
           !.ack = IF call = "gpio_get" THEN <<SdaLevel(m3, dev)>> ELSE @,
           !.wave = Append(@, <<call, pin, SdaLevel(m3, dev), SclLevel(m3)>>),
           !.at = @ + 1]

\* the whole of bitbang_i2c_addr, from its first call to its last
RECURSIVE RunOps(_, _, _)
RunOps(m, prog, dev) ==
    IF m.at > Len(prog) THEN m ELSE RunOps(ApplyOp(m, prog[m.at], dev), prog, dev)

ProbeStart(p, val, dev) ==
    [pins |-> p, at |-> 1, val |-> val, dev |-> dev, ack |-> NoAck,
     started |-> FALSE, seen |-> <<>>, falls |-> 0, wave |-> <<>>]

\* a faulty test of the sample, if (ack != 0) return 1
ProbeResultInverted(m) == IF m.ack = <<0>> THEN 0 ELSE 1
\* if (ack==0) return 1; else return 0;
ProbeResult(m) == IF m.ack = <<0>> THEN 1 ELSE 0

bitbang_i2c_addr(p, val, dev) == RunOps(ProbeStart(p, val, dev), ProbeProgram(val), dev)

\* what an uninitialised unsigned int may hold
JunkVals == {0, 200}
\* the addresses the host probes and the sets of device addresses that may
\* be on the bus
ProbeArgs == {50, 178}
DevSets == {{}, {50}}
\* the probes made from the pin state i2c_setup leaves, evaluated once
ProbeFromSetup ==
    [val \in ProbeArgs \cup JunkVals, dev \in DevSets |->
        bitbang_i2c_addr(PinsAfterSetup, val, dev)]
Probed(p, val, dev) ==
    IF p = PinsAfterSetup /\ <<val, dev>> \in DOMAIN ProbeFromSetup
    THEN ProbeFromSetup[val, dev]
    ELSE bitbang_i2c_addr(p, val, dev)

(***************************************************************************)
(* The M2M chunked transfers, print_buf_m2m_ascii and print_buf_m2m_bin.   *)
(* The two functions differ in the chunk size and in how a byte is         *)
(* written; x holds the locals, the output and the replies read so far.    *)
(***************************************************************************)
XferIdle ==
    [pc |-> "idle", i |-> 0, len |-> 0, enc |-> "hex", out |-> <<>>,
     replies |-> <<>>]
\* the call: len is a uint16_t parameter
XferStart(len, enc) ==
    [pc |-> "loop", i |-> 0, len |-> ToU16(len), enc |-> enc, out |-> <<>>,
     replies |-> <<>>]
ChunkOf(enc) == IF enc = "hex" THEN AsciiChunk ELSE BinChunk
\* a faulty boundary test, (i % 16) == 0: the handshake after the first byte
\* of a chunk instead of its last
AtChunkStart(i, enc) == (i % ChunkOf(enc)) = 0
\* (i % 16) == 15, (i % 64) == 63
AtChunkEnd(i, enc) == (i % ChunkOf(enc)) = ChunkOf(enc) - 1

\* one evaluation of the loop condition and, when it holds, the body up to
\* the call of getchar_timeout_us; b is buf[i]
XferLoop(x, b) ==
    IF x.i < x.len
    THEN LET o == Append(x.out, IF x.enc = "hex" THEN HexItem(b) ELSE RawItem(b))
         IN  IF AtChunkEnd(x.i, x.enc)
             THEN [x EXCEPT !.out = Append(o, Ctl(M2M_RESPONSE_CONTINUE_CHAR)),
                            !.pc = "wait"]
             ELSE [x EXCEPT !.out = o, !.i = @ + 1]
    ELSE [x EXCEPT !.out = Append(@, Ctl(M2M_RESPONSE_OK_CHAR)), !.pc = "ret"]

\* two faulty handlings of the reply: one that goes on after anything but
\* the abort character, one that lacks the test for the abort character
XferReplyLenient(x, r) ==
    LET x1 == [x EXCEPT !.replies = Append(@, r)]
    IN  IF r = M2M_RESPONSE_ERR_CHAR
        THEN [x1 EXCEPT !.out = Append(@, Ctl(M2M_RESPONSE_OK_CHAR)), !.pc = "ret"]
        ELSE [x1 EXCEPT !.i = @ + 1, !.pc = "loop"]
XferReplyNoAbort(x, r) ==
    LET x1 == [x EXCEPT !.replies = Append(@, r)]
    IN  IF r # M2M_RESPONSE_CONTINUE_CHAR
        THEN [x1 EXCEPT !.out = Append(@, Ctl(M2M_RESPONSE_ERR_CHAR)), !.pc = "ret"]
        ELSE [x1 EXCEPT !.i = @ + 1, !.pc = "loop"]

\* the return of getchar_timeout_us with reply r (a character, or "timeout")
\* and the rest of the loop body
XferReply(x, r) ==
    LET x1 == [x EXCEPT !.replies = Append(@, r)]
    IN  IF r = M2M_RESPONSE_ERR_CHAR
        THEN [x1 EXCEPT !.out = Append(@, Ctl(M2M_RESPONSE_OK_CHAR)), !.pc = "ret"]
        ELSE IF r # M2M_RESPONSE_CONTINUE_CHAR
        THEN [x1 EXCEPT !.out = Append(@, Ctl(M2M_RESPONSE_ERR_CHAR)), !.pc = "ret"]
        ELSE [x1 EXCEPT !.i = @ + 1, !.pc = "loop"]

\* buf[i]; past the end of byte_buffer the read is out of bounds and yields
\* whatever lies there
BufAt(buf, i, junk) == IF i < BufCap THEN buf[i] ELSE junk

\* a whole call, with the host's replies in order (a timeout once they are
\* used up)
RECURSIVE RunXfer(_, _, _, _)
RunXfer(x, buf, replies, junk) ==
    IF x.pc = "loop" THEN RunXfer(XferLoop(x, BufAt(buf, x.i, junk)), buf, replies, junk)
    ELSE IF x.pc = "wait"
    THEN IF replies = <<>> THEN RunXfer(XferReply(x, "timeout"), buf, replies, junk)
         ELSE RunXfer(XferReply(x, Head(replies)), buf, Tail(replies), junk)
    ELSE x

(***************************************************************************)
(* decode_token.  Kind follows the order of the comparisons in the code.   *)
(***************************************************************************)
Kind(tok) ==
    IF StrEq(tok, S_device) THEN "device?"
    ELSE IF StrEq(tok, S_bin) THEN "bin"
    ELSE IF StrNEq(tok, S_bytes, 6) THEN "bytes"
    ELSE IF StrEq(tok, S_sendhold) THEN "send+hold"
    ELSE IF StrNEq(tok, S_tryaddr, 8) THEN "tryaddr"
    ELSE IF StrEq(tok, S_send) THEN "send"
    ELSE IF StrEq(tok, S_recv) THEN "recv"
    ELSE IF StrNEq(tok, S_m2m_resp, 9) THEN "m2m_resp"
    ELSE IF StrNEq(tok, S_addr0x, 7) THEN "addr0x"
    ELSE IF StrNEq(tok, S_addr, 5) THEN "addr"
    ELSE IF StrEq(tok, S_noecho) THEN "noecho"
    ELSE IF StrEq(tok, S_end_tok) THEN "end_tok"
    ELSE "other"

\* a token of exactly two hexadecimal digits
IsHexByte(tok) == Len(tok) = 2 /\ IsHexDigit(tok[1]) /\ IsHexDigit(tok[2])

\* the values val may have after sscanf: the conversion's, or whatever the
\* uninitialised local held when the conversion failed
Scanned(sc) == IF sc.ok THEN {sc.val} ELSE JunkVals

NoRun == [active |-> FALSE, n |-> 0, toks |-> <<>>, split |-> FALSE,
          writes |-> <<>>]
BusOp(op, addr, len, hold, data, ok) ==
    [op |-> op, addr |-> addr, len |-> len, hold |-> hold, data |-> data,
     ok |-> ok]
\* the first n bytes of a buffer, in order
BufPrefix(buf, n) == [k \in 1..n |-> buf[k - 1]]

\* process_line is not running
PlIdle == [active |-> FALSE, buf |-> <<>>, len |-> 0, i |-> 0, j |-> 0,
           token |-> <<>>]
\* what process_line does with the result of decode_token: it returns when
\* the token completed the line (and after the end_tok it supplies itself),
\* otherwise it empties the token and moves to the next character
\* process_line as it would be if it went on to the next token after a token
\* that completed the line
AfterTokenNoReturn(p, res) ==
    IF ~p.active THEN p
    ELSE [p EXCEPT !.j = 0, !.token = <<>>, !.i = ToU16(@ + 1)]
AfterToken(p, res) ==
    IF ~p.active THEN p
    ELSE IF res = TOKEN_RESULT_LINE_COMPLETE THEN PlIdle
    ELSE [p EXCEPT !.j = 0, !.token = <<>>, !.i = ToU16(@ + 1)]

\* what every decode step records: the output, the bus calls and the result
\* (and, for tryaddr, the level the probe sampled); the caller then acts on
\* the result
DecodedAck(kind, res, o, b, ack) ==
    /\ last' = [kind |-> kind, res |-> res, ack |-> ack]
    /\ out' = o
    /\ bus' = b
    /\ pl' = AfterToken(pl, res)
Decoded(kind, res, o, b) == DecodedAck(kind, res, o, b, NoAck)

\* device? as it would be if it left the hold flag of a pending send alone
DeviceQKeepsHold(tok) ==
    /\ pc = "main"
    /\ Kind(tok) = "device?"
    /\ token_progress' = TOKEN_PROGRESS_NONE
    /\ expected_num' = 0
    /\ byte_buffer_index' = 0
    /\ Decoded("device?", TOKEN_RESULT_LINE_COMPLETE, <<Text("easy_adapter", 0)>>, <<>>)
    /\ run' = NoRun
    /\ UNCHANGED <<input_mode, m2m_resp, do_echo, i2c_addr, byte_buffer, pins,
                   pc, xf, pr, framer, do_repeated_start>>

DeviceQ(tok) ==
    /\ pc = "main"
    /\ Kind(tok) = "device?"
    /\ token_progress' = TOKEN_PROGRESS_NONE
    /\ expected_num' = 0
    /\ byte_buffer_index' = 0
    /\ do_repeated_start' = 0
    /\ Decoded("device?", TOKEN_RESULT_LINE_COMPLETE, <<Text("easy_adapter", 0)>>, <<>>)
    /\ run' = NoRun
    /\ UNCHANGED <<input_mode, m2m_resp, do_echo, i2c_addr, byte_buffer, pins,
                   pc, xf, pr, framer>>

Bin(tok) ==
    /\ pc = "main"
    /\ Kind(tok) = "bin"
    /\ input_mode' = MODE_BIN
    /\ Decoded("bin", TOKEN_RESULT_LINE_COMPLETE,
               IF m2m_resp # 0 THEN <<Ctl(M2M_RESPONSE_OK_CHAR)>>
               ELSE <<Text("Switching to binary mode", 0)>>, <<>>)
    /\ run' = NoRun
    /\ UNCHANGED <<m2m_resp, do_echo, i2c_addr, expected_num, byte_buffer,
                   byte_buffer_index, token_progress, do_repeated_start,
                   pins, pc, xf, pr, framer>>

Bytes(tok) ==
    /\ pc = "main"
    /\ Kind(tok) = "bytes"
    /\ LET sc == ScanDec(Drop(tok, 6))
       IN  expected_num' = IF sc.ok THEN sc.val ELSE expected_num
    /\ Decoded("bytes", TOKEN_RESULT_LINE_COMPLETE,
               IF m2m_resp # 0 THEN <<Ctl(M2M_RESPONSE_OK_CHAR)>>
               ELSE <<Text("Expecting bytes", expected_num')>>, <<>>)
    /\ run' = NoRun
    /\ UNCHANGED <<input_mode, m2m_resp, do_echo, i2c_addr, byte_buffer,
                   byte_buffer_index, token_progress, do_repeated_start,
                   pins, pc, xf, pr, framer>>

\* send (hold = 0) and send+hold (hold = 1)
StartSend(kind, hold) ==
    IF expected_num = 0
    THEN /\ Decoded(kind, TOKEN_RESULT_LINE_COMPLETE,
                    <<Text("No bytes expected", 0)>>, <<>>)
         /\ run' = NoRun
         /\ UNCHANGED <<byte_buffer_index, token_progress, do_repeated_start>>
    ELSE /\ byte_buffer_index' = 0
         /\ token_progress' = TOKEN_PROGRESS_SEND
         /\ do_repeated_start' = hold
         /\ Decoded(kind, TOKEN_RESULT_OK, <<>>, <<>>)
         /\ run' = [active |-> TRUE, n |-> expected_num, toks |-> <<>>,
                    split |-> FALSE, writes |-> <<>>]

\* send+hold as it would be if it asked for no hold
SendHoldAsSend(tok) ==
    /\ pc = "main"
    /\ Kind(tok) = "send+hold"
    /\ StartSend("send+hold", 0)
    /\ UNCHANGED <<input_mode, m2m_resp, do_echo, i2c_addr, expected_num,
                   byte_buffer, pins, pc, xf, pr, framer>>

SendHold(tok) ==
    /\ pc = "main"
    /\ Kind(tok) = "send+hold"
    /\ StartSend("send+hold", 1)
    /\ UNCHANGED <<input_mode, m2m_resp, do_echo, i2c_addr, expected_num,
                   byte_buffer, pins, pc, xf, pr, framer>>

Send(tok) ==
    /\ pc = "main"
    /\ Kind(tok) = "send"
    /\ StartSend("send", 0)
    /\ UNCHANGED <<input_mode, m2m_resp, do_echo, i2c_addr, expected_num,
                   byte_buffer, pins, pc, xf, pr, framer>>

\* the response of tryaddr to the probe's return value
TryAddrOut(retval, val) ==
    IF m2m_resp # 0
    THEN IF input_mode = MODE_ASCII
         THEN IF retval = 0 THEN <<Ctl(M2M_RESPONSE_PROT_ERR_CHAR)>>
              ELSE <<Ctl(M2M_RESPONSE_OK_CHAR)>>
         ELSE <<>>
    ELSE IF retval = 0 THEN <<Text("Protocol error! Does the I2C device exist?", 0)>>
         ELSE <<Text("Device found at address", val)>>

TryAddr(tok, devs) ==
    /\ pc = "main"
    /\ Kind(tok) = "tryaddr"
    /\ \E val \in Scanned(IF StrNEq(tok, S_tryaddr0x, 10)
                          THEN ScanHex2(Drop(tok, 10))
                          ELSE ScanDec(Drop(tok, 8))) :
          LET m == Probed(pins, val, devs)
          IN  /\ pins' = m.pins
              /\ DecodedAck("tryaddr", TOKEN_RESULT_LINE_COMPLETE,
                            TryAddrOut(ProbeResult(m), val), <<>>, m.ack)
    /\ run' = NoRun
    /\ UNCHANGED <<globals, pc, xf, pr, framer>>

\* i2c_read_blocking(i2c_port, i2c_addr, byte_buffer, count, false) with a
\* count the buffer can hold: on success the device's bytes are stored
ReadInto(buf, count, fill) ==
    [k \in 0..(BufCap - 1) |-> IF k < count THEN fill ELSE buf[k]]

\* the response of recv after the read returned
RecvOut(ok, buf, replies, junk) ==
    IF m2m_resp # 0
    THEN IF input_mode = MODE_ASCII
         THEN IF ~ok THEN <<Ctl(M2M_RESPONSE_PROT_ERR_CHAR)>>
              ELSE RunXfer(XferStart(expected_num, "hex"), buf, replies, junk).out
         ELSE RunXfer(XferStart(expected_num, "raw"), buf, replies, junk).out
    ELSE IF ~ok
         THEN <<Text("Protocol error reading bytes! Does the I2C device exist?", 0)>>
         ELSE <<Text("print_buf_hex", ToU16(expected_num))>>

\* rd: whether the device answered and the byte it sends; ub: what a read of
\* more bytes than byte_buffer holds (or of a negative count) leads to;
\* replies: the host's answers to the transfer's handshakes
Recv(tok, rd, ub, replies, junk) ==
    /\ pc = "main"
    /\ Kind(tok) = "recv"
    /\ run' = NoRun
    /\ IF expected_num = 0
       THEN /\ Decoded("recv", TOKEN_RESULT_LINE_COMPLETE,
                       <<Text("No bytes expected", 0)>>, <<>>)
            /\ UNCHANGED <<byte_buffer, byte_buffer_index, pc>>
       ELSE LET inrange == expected_num \in 1..BufCap
                stored == rd.ok /\ (inrange \/ expected_num > BufCap)
                buf == IF stored THEN ReadInto(byte_buffer, expected_num, rd.fill)
                       ELSE byte_buffer
                b == <<BusOp("read", i2c_addr, expected_num, FALSE, <<>>, rd.ok)>>
            IN  /\ byte_buffer_index' = 0
                /\ byte_buffer' = buf
                /\ IF ~inrange /\ rd.ok /\ ub = "fault"
                   THEN /\ pc' = "fault"
                        /\ Decoded("recv", TOKEN_RESULT_LINE_COMPLETE, <<>>, b)
                   ELSE /\ pc' = pc
                        /\ Decoded("recv", TOKEN_RESULT_LINE_COMPLETE,
                                   RecvOut(rd.ok, buf, replies, junk), b)
    /\ UNCHANGED <<input_mode, m2m_resp, do_echo, i2c_addr, expected_num,
                   token_progress, do_repeated_start, pins, xf, pr, framer>>

\* token[9], the terminator when the token ends there
CharAt(tok, i) == IF i < Len(tok) THEN tok[i + 1] ELSE "NUL"

M2mResp(tok) ==
    /\ pc = "main"
    /\ Kind(tok) = "m2m_resp"
    /\ IF CharAt(tok, 9) = "1"
       THEN /\ m2m_resp' = 1
            /\ Decoded("m2m_resp", TOKEN_RESULT_LINE_COMPLETE,
                       <<Ctl(M2M_RESPONSE_OK_CHAR)>>, <<>>)
       ELSE /\ m2m_resp' = 0
            /\ Decoded("m2m_resp", TOKEN_RESULT_LINE_COMPLETE,
                       <<Text("M2M response off", 0)>>, <<>>)
    /\ run' = NoRun
    /\ UNCHANGED <<input_mode, do_echo, i2c_addr, expected_num, byte_buffer,
                   byte_buffer_index, token_progress, do_repeated_start,
                   pins, pc, xf, pr, framer>>

\* i2c_addr = val, then the response; both spellings share it
SetAddr(kind, val) ==
    /\ i2c_addr' = ToU8(val)
    /\ Decoded(kind, TOKEN_RESULT_LINE_COMPLETE,
               IF m2m_resp # 0 THEN <<Ctl(M2M_RESPONSE_OK_CHAR)>>
               ELSE <<Text("I2C address set to", i2c_addr')>>, <<>>)
    /\ run' = NoRun
    /\ UNCHANGED <<input_mode, m2m_resp, do_echo, expected_num, byte_buffer,
                   byte_buffer_index, token_progress, do_repeated_start,
                   pins, pc, xf, pr, framer>>

AddrHex(tok) ==
    /\ pc = "main"
    /\ Kind(tok) = "addr0x"
    /\ \E val \in Scanned(ScanHex2(Drop(tok, 7))) : SetAddr("addr0x", val)

AddrDec(tok) ==
    /\ pc = "main"
    /\ Kind(tok) = "addr"
    /\ \E val \in Scanned(ScanDec(Drop(tok, 5))) : SetAddr("addr", val)

NoEcho(tok) ==
    /\ pc = "main"
    /\ Kind(tok) = "noecho"
    /\ do_echo' = 0
    /\ Decoded("noecho", TOKEN_RESULT_ERROR, <<Text("Echo off", 0)>>, <<>>)
    /\ run' = NoRun
    /\ UNCHANGED <<input_mode, m2m_resp, i2c_addr, expected_num, byte_buffer,
                   byte_buffer_index, token_progress, do_repeated_start,
                   pins, pc, xf, pr, framer>>

\* the end_tok branch: the report of a send still pending
EndTokOut ==
    IF token_progress = TOKEN_PROGRESS_SEND
    THEN IF m2m_resp # 0 THEN <<Ctl(M2M_RESPONSE_CONTINUE_CHAR)>>
         ELSE <<Text("Remaining bytes expected", expected_num - byte_buffer_index)>>
    ELSE <<>>

\* the token end_tok typed by the host
EndTok(tok) ==
    /\ pc = "main"
    /\ Kind(tok) = "end_tok"
    /\ Decoded("end_tok", TOKEN_RESULT_LINE_COMPLETE, EndTokOut, <<>>)
    /\ run' = NoRun
    /\ UNCHANGED <<globals, pins, pc, xf, pr, framer>>

\* the call decode_token("end_tok") that process_line makes after the last
\* token of a line on which no token signalled line complete
EndOfLine ==
    /\ pc = "main"
    /\ last.res # TOKEN_RESULT_LINE_COMPLETE \/ input_mode = MODE_BIN
    /\ Decoded("eol", TOKEN_RESULT_LINE_COMPLETE, EndTokOut, <<>>)
    /\ run' = IF run.active /\ token_progress = TOKEN_PROGRESS_SEND
              THEN [run EXCEPT !.split = TRUE] ELSE run
    /\ UNCHANGED <<globals, pins, pc, xf, pr, framer>>

\* a token that is no command while a send is in progress, of a length
\* other than two
BadLen(tok) ==
    /\ pc = "main"
    /\ Kind(tok) = "other"
    /\ token_progress = TOKEN_PROGRESS_SEND
    /\ Len(tok) # 2
    /\ Decoded("badlen", TOKEN_RESULT_LINE_COMPLETE, <<Text("Invalid byte", 0)>>, <<>>)
    /\ run' = NoRun
    /\ UNCHANGED <<globals, pins, pc, xf, pr, framer>>

\* the response to the write that completes a send
WriteOut(wok, n) ==
    (IF m2m_resp = 0
     THEN <<Text("Sending bytes", n), Text("print_buf_hex", ToU16(n))>>
     ELSE <<>>)
    \o (IF ~wok
        THEN IF m2m_resp # 0 THEN <<Ctl(M2M_RESPONSE_PROT_ERR_CHAR)>>
             ELSE <<Text("Protocol error sending bytes! Does the I2C device exist?", 0)>>
        ELSE IF m2m_resp # 0 THEN <<Ctl(M2M_RESPONSE_OK_CHAR)>> ELSE <<>>)

\* byte_buffer_index++ on a uint8_t
NextIndex(i) == (i + 1) % Uint8Mod

\* a token of two characters that is no command while a send is in progress;
\* wok: whether the bus write, if this byte completes the payload, succeeds
SendByte(tok, wok) ==
    /\ pc = "main"
    /\ Kind(tok) = "other"
    /\ token_progress = TOKEN_PROGRESS_SEND
    /\ Len(tok) = 2
    /\ \E val \in Scanned(ScanHex2(tok)) :
       LET buf == [byte_buffer EXCEPT ![byte_buffer_index] = ToU8(val)]
           idx == NextIndex(byte_buffer_index)
           kind == IF IsHexByte(tok) THEN "byte" ELSE "nonhex"
           w == BusOp("write", i2c_addr, expected_num, do_repeated_start # 0,
                      BufPrefix(buf, expected_num), wok)
           r == IF run.active /\ IsHexByte(tok)
                THEN [run EXCEPT !.toks = Append(@, tok)]
                ELSE NoRun
       IN  /\ byte_buffer' = buf
           /\ IF idx = expected_num
              THEN /\ byte_buffer_index' = 0
                   /\ expected_num' = 0
                   /\ do_repeated_start' = 0
                   /\ token_progress' = TOKEN_PROGRESS_NONE
                   /\ Decoded(kind, TOKEN_RESULT_LINE_COMPLETE,
                              WriteOut(wok, expected_num), <<w>>)
                   /\ run' = IF r.active THEN [r EXCEPT !.writes = Append(@, w)]
                             ELSE r
              ELSE /\ byte_buffer_index' = idx
                   /\ Decoded(kind, TOKEN_RESULT_OK, <<>>, <<>>)
                   /\ run' = r
                   /\ UNCHANGED <<expected_num, do_repeated_start, token_progress>>
    /\ UNCHANGED <<input_mode, m2m_resp, do_echo, i2c_addr, pins, pc, xf,
                   pr, framer>>

\* a token that is no command while no send is in progress
Unknown(tok) ==
    /\ pc = "main"
    /\ Kind(tok) = "other"
    /\ token_progress # TOKEN_PROGRESS_SEND
    /\ Decoded("unknown", TOKEN_RESULT_LINE_COMPLETE,
               IF m2m_resp # 0 THEN <<Ctl(M2M_RESPONSE_ERR_CHAR)>>
               ELSE <<Text("Unknown command", 0)>>, <<>>)
    /\ run' = NoRun
    /\ UNCHANGED <<globals, pins, pc, xf, pr, framer>>

(***************************************************************************)
(* The host and the bus: the inputs of the specification Spec.             *)
(***************************************************************************)
NumArgs == (0 - 1)..MaxN
AddrArgs == {200}
ReadOutcomes == [ok : BOOLEAN, fill : {200}]
Replies == {M2M_RESPONSE_CONTINUE_CHAR, M2M_RESPONSE_ERR_CHAR, "?", "timeout"}
RECURSIVE SeqsUpTo(_, _)
SeqsUpTo(S, n) ==
    IF n = 0 THEN {<<>>}
    ELSE SeqsUpTo(S, n - 1)
         \cup {Append(q, e) : q \in {p \in SeqsUpTo(S, n - 1) : Len(p) = n - 1}, e \in S}
ReplySeqs == SeqsUpTo(Replies, MaxReplies)

ByteToks == {HexStr2Lower(200)}
OddToks == {<<>>, <<"0", "1", "2">>, <<"z", "z">>, <<"1", "g">>, <<"h", "e", "l", "p">>}
Tokens ==
    {S_device, S_bin, S_sendhold, S_send, S_recv, S_noecho, S_end_tok, S_bytes,
     S_tryaddr, S_addr, S_m2m_resp \o <<"1">>, S_m2m_resp \o <<"0">>}
    \cup {S_bytes \o DecStr(n) : n \in NumArgs}
    \cup {S_addr0x \o HexStr2(a) : a \in AddrArgs}
    \cup {S_addr \o DecStr(a) : a \in AddrArgs}
    \cup {S_tryaddr0x \o HexStr2(a) : a \in ProbeArgs}
    \cup {S_tryaddr \o DecStr(a) : a \in ProbeArgs}
    \cup ByteToks \cup OddToks
\* the tokens the decoder takes to its branch kind
TokensOf(kind) == {tok \in Tokens : Kind(tok) = kind}
DeviceToks == TokensOf("device?")
BinToks == TokensOf("bin")
BytesToks == TokensOf("bytes")
SendHoldToks == TokensOf("send+hold")
TryAddrToks == TokensOf("tryaddr")
SendToks == TokensOf("send")
RecvToks == TokensOf("recv")
M2mRespToks == TokensOf("m2m_resp")
AddrHexToks == TokensOf("addr0x")
AddrDecToks == TokensOf("addr")
NoEchoToks == TokensOf("noecho")
EndTokToks == TokensOf("end_tok")
OtherToks == TokensOf("other")

\* the choices that matter to a recv in the current state: what an
\* out-of-range read leads to, the replies to the handshakes of a transfer
\* that reaches one, the bytes found past the end of byte_buffer
RecvUb(rd) ==
    IF rd.ok /\ expected_num # 0 /\ expected_num \notin 1..BufCap
    THEN {"fault", "return"} ELSE {"return"}
RecvReplies(rd, ub) ==
    IF /\ expected_num # 0 /\ m2m_resp # 0 /\ ub = "return"
       /\ IF input_mode = MODE_ASCII
          THEN rd.ok /\ ToU16(expected_num) >= AsciiChunk
          ELSE ToU16(expected_num) >= BinChunk
    THEN ReplySeqs ELSE {<<>>}
RecvJunk ==
    IF m2m_resp # 0 /\ ToU16(expected_num) > BufCap
       /\ BinChunk * (MaxReplies + 1) > BufCap
    THEN JunkVals ELSE {0}

Init ==
    /\ input_mode = MODE_ASCII
    /\ m2m_resp = 0
    /\ do_echo = 1
    /\ i2c_addr = 0
    /\ expected_num = 0
    /\ byte_buffer = [k \in 0..(BufCap - 1) |-> 0]
    /\ byte_buffer_index = 0
    /\ token_progress = TOKEN_PROGRESS_NONE
    /\ do_repeated_start = 0
    /\ pins = PinsAfterSetup
    /\ pc = "main"
    /\ out = <<>>
    /\ bus = <<>>
    /\ last = [kind |-> "none", res |-> TOKEN_RESULT_LINE_COMPLETE, ack |-> NoAck]
    /\ run = NoRun
    /\ xf = XferIdle
    /\ pr = ProbeIdle
    /\ uart_buffer = <<>>
    /\ uart_buffer_index = 0
    /\ wire = <<>>
    /\ pl = PlIdle

\* the host supplies payload bytes only while the cursor is at most MaxN
Next ==
    \/ \E tok \in DeviceToks : DeviceQ(tok)
    \/ \E tok \in BinToks : Bin(tok)
    \/ \E tok \in BytesToks : Bytes(tok)
    \/ \E tok \in SendHoldToks : SendHold(tok)
    \/ \E tok \in TryAddrToks, devs \in DevSets : TryAddr(tok, devs)
    \/ \E tok \in SendToks : Send(tok)
    \/ \E tok \in RecvToks, rd \in ReadOutcomes :
          \E ub \in RecvUb(rd) :
             \E replies \in RecvReplies(rd, ub), junk \in RecvJunk :
                Recv(tok, rd, ub, replies, junk)
    \/ \E tok \in M2mRespToks : M2mResp(tok)
    \/ \E tok \in AddrHexToks : AddrHex(tok)
    \/ \E tok \in AddrDecToks : AddrDec(tok)
    \/ \E tok \in NoEchoToks : NoEcho(tok)
    \/ \E tok \in EndTokToks : EndTok(tok)
    \/ \E tok \in OtherToks : BadLen(tok)
    \/ \E tok \in OtherToks, wok \in BOOLEAN :
          byte_buffer_index <= MaxN /\ SendByte(tok, wok)
    \/ \E tok \in OtherToks : Unknown(tok)
    \/ EndOfLine

Spec == Init /\ [][Next]_vars

(***************************************************************************)
(* SpecXfer: one M2M chunked transfer, a step per loop iteration and per   *)
(* handshake reply.  recv has read expected_num bytes from the device and  *)
(* calls print_buf_m2m_ascii or print_buf_m2m_bin.                         *)
(***************************************************************************)
\* the k-th byte of a long payload: neighbours differ, and so do bytes 256
\* apart in position from their wrapped positions
Pattern(k) == (k * 7 + (k \div Uint8Mod) + 3) % Uint8Mod

XferLens == 1..MaxLen

InitXfer ==
    /\ input_mode \in {MODE_ASCII, MODE_BIN}
    /\ m2m_resp = 1
    /\ do_echo = 1
    /\ i2c_addr = 0
    /\ expected_num \in XferLens
    /\ byte_buffer = [k \in 0..(BufCap - 1) |->
                         IF k < expected_num THEN Pattern(k) ELSE 0]
    /\ byte_buffer_index = 0
    /\ token_progress = TOKEN_PROGRESS_NONE
    /\ do_repeated_start = 0
    /\ pins = PinsAfterSetup
    /\ pc = "xfer"
    /\ out = <<>>
    /\ bus = <<BusOp("read", i2c_addr, expected_num, FALSE, <<>>, TRUE)>>
    /\ last = [kind |-> "none", res |-> TOKEN_RESULT_LINE_COMPLETE, ack |-> NoAck]
    /\ run = NoRun
    /\ xf = XferStart(expected_num, IF input_mode = MODE_ASCII THEN "hex" ELSE "raw")
    /\ pr = ProbeIdle
    /\ uart_buffer = <<>>
    /\ uart_buffer_index = 0
    /\ wire = <<>>
    /\ pl = PlIdle

\* the loop condition and the body up to the handshake
XferLoopStep ==
    /\ pc = "xfer"
    /\ xf.pc = "loop"
    /\ xf' = XferLoop(xf, BufAt(byte_buffer, xf.i, 0))
    /\ out' = xf'.out
    /\ UNCHANGED <<globals, pins, pc, bus, last, run, pr, framer, pl>>

\* getchar_timeout_us returns r
XferReplyStep(r) ==
    /\ pc = "xfer"
    /\ xf.pc = "wait"
    /\ xf' = XferReply(xf, r)
    /\ out' = xf'.out
    /\ UNCHANGED <<globals, pins, pc, bus, last, run, pr, framer, pl>>

\* the function returns and recv returns TOKEN_RESULT_LINE_COMPLETE
XferReturn ==
    /\ pc = "xfer"
    /\ xf.pc = "ret"
    /\ xf' = [xf EXCEPT !.pc = "done"]
    /\ pc' = "main"
    /\ last' = [kind |-> "recv", res |-> TOKEN_RESULT_LINE_COMPLETE, ack |-> NoAck]
    /\ UNCHANGED <<globals, pins, out, bus, run, pr, framer, pl>>

NextXfer ==
    \/ XferLoopStep
    \/ \E r \in Replies : XferReplyStep(r)
    \/ XferReturn

SpecXfer == InitXfer /\ [][NextXfer]_vars

(***************************************************************************)
(* Properties of the chunked transfer (SpecXfer).                          *)
(***************************************************************************)
DataCount(o) == Cardinality({p \in 1..Len(o) : o[p].k = "data"})
ContinueCount(rs) ==
    Cardinality({p \in 1..Len(rs) : rs[p] = M2M_RESPONSE_CONTINUE_CHAR})
Terminals(o) ==
    {p \in 1..Len(o) : o[p] \in {Ctl(M2M_RESPONSE_OK_CHAR), Ctl(M2M_RESPONSE_ERR_CHAR)}}
AllContinue(rs) == \A p \in 1..Len(rs) : rs[p] = M2M_RESPONSE_CONTINUE_CHAR

\* C3: at every moment of a transfer, in either variant, the payload bytes
\* emitted so far fit in the first chunk plus one chunk per CONTINUE the host
\* has given; only the last reply may be something other than CONTINUE, and
\* after such a reply (an abort, another character, a timeout) no payload
\* byte follows the chunk it closed.
C3_NoChunkWithoutContinue ==
    xf.pc # "idle" =>
        /\ DataCount(xf.out) <= ChunkOf(xf.enc) * (ContinueCount(xf.replies) + 1)
        /\ AllContinue(SubSeq(xf.replies, 1, Len(xf.replies) - 1))
        /\ ~AllContinue(xf.replies) =>
               DataCount(xf.out) = ChunkOf(xf.enc) * Len(xf.replies)

\* C3 witness: a binary transfer has emitted bytes of its second chunk
\* after the host answered the first handshake with CONTINUE.
C3_Witness ==
    /\ pc = "xfer"
    /\ xf.enc = "raw"
    /\ xf.replies = <<M2M_RESPONSE_CONTINUE_CHAR>>
    /\ DataCount(xf.out) > BinChunk

\* C4: while a transfer runs no terminal sentinel has been emitted and every
\* reply so far was CONTINUE; once it has returned, exactly one terminal
\* sentinel has been emitted and it is the last character: OK when the last
\* reply was the abort character, ERROR when it was any other character but
\* CONTINUE or a timeout, OK with all len bytes sent when every handshake was
\* answered with CONTINUE; and nothing is written after the return.
C4_ReplyDecides ==
    /\ xf.pc \in {"loop", "wait"} =>
           Terminals(xf.out) = {} /\ AllContinue(xf.replies)
    /\ xf.pc \in {"ret", "done"} =>
           /\ Terminals(xf.out) = {Len(xf.out)}
           /\ LET t == xf.out[Len(xf.out)].c[1]
                  rs == xf.replies
              IN  IF AllContinue(rs)
                  THEN t = M2M_RESPONSE_OK_CHAR /\ DataCount(xf.out) = xf.len
                  ELSE IF rs[Len(rs)] = M2M_RESPONSE_ERR_CHAR
                  THEN t = M2M_RESPONSE_OK_CHAR
                  ELSE t = M2M_RESPONSE_ERR_CHAR
    /\ xf.pc = "done" => out = xf.out

\* C4 witness: a transfer that went on after one CONTINUE and was ended by a
\* timeout at the second handshake has returned with ERROR as its last
\* character.
C4_Witness ==
    /\ xf.pc = "done"
    /\ xf.replies = <<M2M_RESPONSE_CONTINUE_CHAR, "timeout">>
    /\ out[Len(out)] = Ctl(M2M_RESPONSE_ERR_CHAR)

\* the p-th character of a transfer of len bytes of buf whose handshakes are
\* all answered with CONTINUE: a CONTINUE after every full chunk, OK last
ExpectedAt(p, len, enc, buf) ==
    IF p = len + (len \div ChunkOf(enc)) + 1 THEN Ctl(M2M_RESPONSE_OK_CHAR)
    ELSE IF p % (ChunkOf(enc) + 1) = 0 THEN Ctl(M2M_RESPONSE_CONTINUE_CHAR)
    ELSE LET b == buf[p - 1 - (p \div (ChunkOf(enc) + 1))]
         IN  IF enc = "hex" THEN HexItem(b) ELSE RawItem(b)

\* C5: in a transfer whose handshakes so far were all answered with
\* CONTINUE, the output is the payload in order with a CONTINUE after every
\* 16th byte (64th in the binary variant) and nowhere else; when it has
\* returned, a single OK follows and the handshakes number len div 16
\* (len div 64).
C5_HandshakeCadence ==
    (xf.pc # "idle" /\ AllContinue(xf.replies)) =>
        /\ \A p \in 1..Len(xf.out) :
              xf.out[p] = ExpectedAt(p, xf.len, xf.enc, byte_buffer)
        /\ xf.pc \in {"ret", "done"} =>
              /\ Len(xf.out) = xf.len + (xf.len \div ChunkOf(xf.enc)) + 1
              /\ Len(xf.replies) = xf.len \div ChunkOf(xf.enc)

\* C5 witness: a 32-byte ASCII transfer has returned after two handshakes,
\* one after byte 16 and one after byte 32, and a final OK.
C5_Witness ==
    /\ xf.pc = "done"
    /\ xf.enc = "hex"
    /\ xf.len = 2 * AsciiChunk
    /\ xf.replies = <<M2M_RESPONSE_CONTINUE_CHAR, M2M_RESPONSE_CONTINUE_CHAR>>
    /\ {p \in 1..Len(out) : out[p] = Ctl(M2M_RESPONSE_CONTINUE_CHAR)}
           = {AsciiChunk + 1, 2 * AsciiChunk + 2}
    /\ out[Len(out)] = Ctl(M2M_RESPONSE_OK_CHAR)
    /\ Len(out) = 2 * AsciiChunk + 3

(***************************************************************************)
(* SpecProbe: one tryaddr command, a step per SDK or helper call of        *)
(* bitbang_i2c_addr.  The command arrives in either framing, with M2M      *)
(* responses on or off, while the decoder is idle or a send is pending.    *)
(***************************************************************************)
\* i2c_addr, expected_num, token_progress, byte_buffer_index and
\* do_repeated_start when the command arrives: after power-up, and after
\* addr:200 bytes:2 send+hold c8
ProbeEntries ==
    { <<0, 0, TOKEN_PROGRESS_NONE, 0, 0>>,
      <<200, 2, TOKEN_PROGRESS_SEND, 1, 1>> }

InitProbe ==
    /\ input_mode \in {MODE_ASCII, MODE_BIN}
    /\ m2m_resp \in {0, 1}
    /\ do_echo = 1
    /\ \E e \in ProbeEntries :
          /\ i2c_addr = e[1]
          /\ expected_num = e[2]
          /\ token_progress = e[3]
          /\ byte_buffer_index = e[4]
          /\ do_repeated_start = e[5]
          /\ byte_buffer = [k \in 0..(BufCap - 1) |-> IF k < e[4] THEN 200 ELSE 0]
    /\ pins = PinsAfterSetup
    /\ pc = "probe"
    /\ out = <<>>
    /\ bus = <<>>
    /\ last = [kind |-> "none", res |-> TOKEN_RESULT_LINE_COMPLETE, ack |-> NoAck]
    /\ run = NoRun
    /\ xf = XferIdle
    /\ \E val \in ProbeArgs \cup JunkVals, dev \in DevSets :
          pr = ProbeStart(PinsAfterSetup, val, dev)
    /\ uart_buffer = <<>>
    /\ uart_buffer_index = 0
    /\ wire = <<>>
    /\ pl = PlIdle

\* the next call of bitbang_i2c_addr
ProbeStep ==
    /\ pc = "probe"
    /\ pr.at <= Len(ProbeProgram(pr.val))
    /\ pr' = ApplyOp(pr, ProbeProgram(pr.val)[pr.at], pr.dev)
    /\ pins' = pr'.pins
    /\ UNCHANGED <<globals, pc, out, bus, last, run, xf, framer, pl>>

\* bitbang_i2c_addr returns; tryaddr responds and returns
\* TOKEN_RESULT_LINE_COMPLETE
ProbeReturn ==
    /\ pc = "probe"
    /\ pr.at > Len(ProbeProgram(pr.val))
    /\ pc' = "main"
    /\ DecodedAck("tryaddr", TOKEN_RESULT_LINE_COMPLETE,
                  TryAddrOut(ProbeResult(pr), pr.val), <<>>, pr.ack)
    /\ UNCHANGED <<globals, pins, run, xf, pr, framer>>

NextProbe == ProbeStep \/ ProbeReturn

SpecProbe == InitProbe /\ [][NextProbe]_vars

(***************************************************************************)
(* Properties of the probe (SpecProbe).  A wave entry is                   *)
(* <<call, pin, level of the data line, level of the clock line>>.         *)
(***************************************************************************)
\* the entries of the wave at which the clock line rose
ClockRises(w) ==
    {k \in 1..Len(w) : w[k][4] = 1 /\ (IF k = 1 THEN FALSE ELSE w[k - 1][4] = 0)}
\* the data line was low when gpio_get sampled it, with the clock line high
\* in its ninth pulse since the start condition
SampledLowInAckPulse(w) ==
    \E k \in 1..Len(w) :
        /\ w[k][1] = "gpio_get"
        /\ w[k][3] = 0
        /\ w[k][4] = 1
        /\ Cardinality({j \in ClockRises(w) : j < k}) = 9

\* C6: once tryaddr has returned, whatever the address probed and whether or
\* not a device acknowledged, both bus pins are on the I2C function with
\* their pull-ups enabled, and i2c_init has run after the last bit-banged
\* call.
C6_BusRestored ==
    (pc = "main" /\ last.kind = "tryaddr") =>
        /\ \A pin \in {I2C_SDA_PIN, I2C_SCL_PIN} :
              pins[pin].func = "I2C" /\ pins[pin].pull = "up"
        /\ \E k \in 1..Len(pr.wave) :
              /\ pr.wave[k][1] = "i2c_init"
              /\ \A j \in k..Len(pr.wave) :
                    pr.wave[j][1] \notin {"gpio_init", "pullup_gpio", "pulldown_gpio"}

\* C6 witness: a probe that no device acknowledged has returned, after
\* driving the data line low as a GPIO output.
C6_Witness ==
    /\ pc = "main"
    /\ last.kind = "tryaddr"
    /\ last.ack = <<1>>
    /\ \E k \in 1..Len(pr.wave) :
          pr.wave[k][1] = "pulldown_gpio" /\ pr.wave[k][2] = I2C_SDA_PIN
    /\ pins = PinsAfterSetup

\* C7: once tryaddr has returned it has ended the line; with M2M responses
\* on and ASCII framing it has written exactly one sentinel, OK if the data
\* line was sampled low in the acknowledge clock pulse and PROTOCOL-ERROR if
\* not; with M2M responses on and binary framing it has written nothing;
\* with M2M responses off it reports the device found exactly when the
\* line was sampled low; and no step of the command changes i2c_addr,
\* expected_num, token_progress or byte_buffer_index.
C7_TryAddrReports ==
    /\ []((pc = "main" /\ last.kind = "tryaddr") =>
            /\ last.res = TOKEN_RESULT_LINE_COMPLETE
            /\ (last.ack = <<0>>) = SampledLowInAckPulse(pr.wave)
            /\ (m2m_resp # 0 /\ input_mode = MODE_ASCII) =>
                   out = IF SampledLowInAckPulse(pr.wave)
                         THEN <<Ctl(M2M_RESPONSE_OK_CHAR)>>
                         ELSE <<Ctl(M2M_RESPONSE_PROT_ERR_CHAR)>>
            /\ (m2m_resp # 0 /\ input_mode = MODE_BIN) => out = <<>>
            /\ m2m_resp = 0 =>
                   /\ Len(out) = 1
                   /\ (out[1] = Text("Device found at address", pr.val))
                          = SampledLowInAckPulse(pr.wave))
    /\ [][UNCHANGED <<i2c_addr, expected_num, token_progress,
                      byte_buffer_index>>]_vars

\* C7 witness: with M2M responses on and ASCII framing, during a pending
\* send, a probe whose sample was low has returned with the single
\* sentinel OK.
C7_Witness ==
    /\ pc = "main"
    /\ last.kind = "tryaddr"
    /\ m2m_resp = 1
    /\ input_mode = MODE_ASCII
    /\ token_progress = TOKEN_PROGRESS_SEND
    /\ SampledLowInAckPulse(pr.wave)
    /\ out = <<Ctl(M2M_RESPONSE_OK_CHAR)>>

(***************************************************************************)
(* SpecLong: sends of payloads about as long as byte_buffer.  The host     *)
(* declares the count, starts a send and supplies the bytes Pattern(0),    *)
(* Pattern(1), ... as upper-case hex tokens, ending lines where it likes.  *)
(***************************************************************************)
LongArgs == {BufCap - 1, BufCap, BufCap + 1}
LongBytesToks == {S_bytes \o DecStr(n) : n \in LongArgs}
\* the next byte token of the payload
PatternTok == HexStr2(Pattern(Len(run.toks)))

\* the host declares a count and starts a send only while none is pending
NextLong ==
    \/ \E tok \in LongBytesToks :
          token_progress = TOKEN_PROGRESS_NONE /\ Bytes(tok)
    \/ token_progress = TOKEN_PROGRESS_NONE /\ Send(S_send)
    \/ token_progress = TOKEN_PROGRESS_NONE /\ SendHold(S_sendhold)
    \/ \E wok \in BOOLEAN :
          run.active /\ Len(run.toks) < MaxToks /\ SendByte(PatternTok, wok)
    \/ EndOfLine

SpecLong == Init /\ [][NextLong]_vars

\* the bytes a sequence of two-hex-digit tokens denotes
TokBytes(toks) == [k \in 1..Len(toks) |-> ScanHex2(toks[k]).val]

\* C1: for every count n from 1 to 256 declared by bytes:n, once a send has
\* been followed by exactly n two-hex-digit tokens (line ends in between or
\* not), exactly one bus write has been made, of n bytes, carrying the
\* tokens' bytes in order, and expected_num = 0 and token_progress = NONE.
C1_SendWritesPayload ==
    (run.active /\ run.n \in 1..BufCap /\ Len(run.toks) = run.n) =>
        /\ Len(run.writes) = 1
        /\ run.writes[1].len = run.n
        /\ run.writes[1].data = TokBytes(run.toks)
        /\ expected_num = 0
        /\ token_progress = TOKEN_PROGRESS_NONE

\* C2: for every count n from 2 up to the buffer's capacity, a send whose
\* bytes are spread over several lines: while k < n byte tokens have been
\* supplied, token_progress is SEND, the cursor is k, the k bytes are in
\* byte_buffer in order and nothing has been written to the bus; with the
\* n-th byte token the write is made, carrying all n bytes in order.
C2_PartialSendContinues ==
    (run.active /\ run.split /\ run.n \in 2..BufCap) =>
        LET k == Len(run.toks)
        IN  /\ k < run.n =>
                  /\ token_progress = TOKEN_PROGRESS_SEND
                  /\ byte_buffer_index = k
                  /\ \A j \in 1..k : byte_buffer[j - 1] = TokBytes(run.toks)[j]
                  /\ run.writes = <<>>
            /\ k >= run.n =>
                  /\ k = run.n
                  /\ Len(run.writes) = 1
                  /\ run.writes[1].data = TokBytes(run.toks)

(***************************************************************************)
(* Properties of the decoder's send state (Spec).                          *)
(***************************************************************************)
\* C8: in every reachable state with a send in progress the cursor is at
\* most the expected count.
C8_CursorWithinCount ==
    token_progress = TOKEN_PROGRESS_SEND => byte_buffer_index <= expected_num

\* C9: in every reachable state a send in progress implies a positive
\* expected count.
C9_SendImpliesCount ==
    token_progress = TOKEN_PROGRESS_SEND => expected_num > 0

\* C10: token_progress goes from SEND to NONE only with the byte token that
\* completes the payload and makes the write or with a malformed byte token
\* (one of the wrong length or with a character that is no hex digit); and
\* after a malformed byte token token_progress is NONE.
C10_SendExits ==
    /\ [](last.kind \in {"badlen", "nonhex"} =>
              token_progress = TOKEN_PROGRESS_NONE)
    /\ [][(token_progress = TOKEN_PROGRESS_SEND
           /\ token_progress' = TOKEN_PROGRESS_NONE) =>
              \/ last'.kind = "byte" /\ Len(bus') = 1
              \/ last'.kind \in {"badlen", "nonhex"}]_vars

(***************************************************************************)
(* Malformed byte tokens and error reports (specification Spec).           *)
(***************************************************************************)
\* the report of an error in the current response mode: the sentinel alone in
\* machine-to-machine mode, text otherwise
IsErrorReport(o) ==
    /\ Len(o) = 1
    /\ IF m2m_resp # 0
       THEN o[1].k = "ctl"
            /\ o[1].c[1] \in {M2M_RESPONSE_ERR_CHAR, M2M_RESPONSE_PROT_ERR_CHAR}
       ELSE o[1].k = "text"

\* C11: while a send is in progress, a token that is no command and is not
\* exactly two hexadecimal digits is reported as an error, ends the line and
\* leaves the byte buffer and its cursor as they were
C11_MalformedByteRejected ==
    [][last'.kind \in {"badlen", "nonhex"}
       => /\ last'.res = TOKEN_RESULT_LINE_COMPLETE
          /\ out' # <<>>
          /\ byte_buffer' = byte_buffer
          /\ byte_buffer_index' = byte_buffer_index]_vars

\* the last token decoded ended in one of the error outcomes: an unknown
\* command, a send, send+hold or recv refused for want of a byte count, a
\* malformed byte token, or a bus write or read that failed
ErrorOutcome ==
    \/ last.kind \in {"unknown", "badlen", "nonhex"}
    \/ last.kind \in {"send", "send+hold"} /\ last.res = TOKEN_RESULT_LINE_COMPLETE
    \/ last.kind = "recv" /\ bus = <<>>
    \/ bus # <<>> /\ ~bus[1].ok

\* C12: in machine-to-machine mode every error outcome of a command is
\* reported as one status sentinel and nothing else
C12_M2mErrorIsSentinel ==
    (pc = "main" /\ m2m_resp # 0 /\ ErrorOutcome) => IsErrorReport(out)

(***************************************************************************)
(* recv (specification Spec).                                              *)
(***************************************************************************)
\* the items of a response that carry payload bytes
PayloadItems(o) == {i \in 1..Len(o) : o[i].k = "data"}

\* C13: recv without a byte count reports an error and reads nothing; with a
\* positive count it makes one read of that many bytes from i2c_addr, and a
\* read that fails is answered by the protocol error alone, with no payload,
\* in every response mode
C13_RecvFailureNoPayload ==
    (pc = "main" /\ last.kind = "recv")
    => IF bus = <<>>
       THEN expected_num = 0 /\ Len(out) = 1 /\ out[1].k = "text"
       ELSE /\ Len(bus) = 1
            /\ bus[1].op = "read"
            /\ bus[1].len = expected_num
            /\ bus[1].addr = i2c_addr
            /\ (expected_num > 0 /\ ~bus[1].ok)
               => /\ PayloadItems(out) = {}
                  /\ Len(out) = 1
                  /\ IF m2m_resp # 0
                     THEN out[1] = Ctl(M2M_RESPONSE_PROT_ERR_CHAR)
                     ELSE out[1].k = "text"

(***************************************************************************)
(* scan_uart_input and process_line.  A byte is a one-character string     *)
(* when it is printable and "x" followed by its two hex digits otherwise.  *)
(***************************************************************************)
CR == "x0D"
BS == "x08"
DEL == "x7F"
EOL_BIN_MAGIC == <<"xBA", "xDC", "x0F", "xFE", "xE0", "x0F", "xF0", "x0D">>
UartCap == 305
AsciiWrap == 300
MagicLen == 8
TokenCap == 20

\* putchar(c) and printf("\n") of the echo
Echo(ch) == [k |-> "echo", c |-> <<ch>>, b |-> 0]

\* main calls process_line(uart_buffer, numbytes) when numbytes > 0
PlCall(buf, numbytes) ==
    IF numbytes > 0
    THEN [active |-> TRUE, buf |-> buf, len |-> numbytes, i |-> 0, j |-> 0,
          token |-> <<>>]
    ELSE PlIdle

\* the loop of main is at its call of scan_uart_input
AwaitingByte == pc = "main" /\ ~pl.active

\* getchar_timeout_us returns PICO_ERROR_TIMEOUT: scan_uart_input returns 0
ScanTimeout ==
    /\ AwaitingByte
    /\ UNCHANGED vars

\* scan_uart_input in ASCII mode, getchar_timeout_us returning the byte c
ScanAscii ==
    /\ AwaitingByte
    /\ input_mode = MODE_ASCII
    /\ wire # <<>>
    /\ wire' = Tail(wire)
    /\ LET c == Head(wire)
       IN  IF c \in {BS, DEL}
           THEN IF uart_buffer_index > 0
                THEN /\ uart_buffer_index' = uart_buffer_index - 1
                     /\ uart_buffer' = SubSeq(uart_buffer, 1, uart_buffer_index - 1)
                     /\ out' = IF do_echo # 0
                               THEN <<Echo(BS), Echo(" "), Echo(BS)>> ELSE <<>>
                     /\ pl' = pl
                ELSE /\ out' = <<>>
                     /\ UNCHANGED <<uart_buffer, uart_buffer_index, pl>>
           ELSE IF c = CR
           THEN /\ uart_buffer_index' = 0
                /\ uart_buffer' = <<>>
                /\ out' = IF m2m_resp = 0 /\ do_echo # 0
                          THEN <<Echo("\n")>> ELSE <<>>
                /\ pl' = PlCall(Append(uart_buffer, " "),
                                ToU16(uart_buffer_index + 1))
           ELSE LET idx == ToU16(uart_buffer_index + 1)
                IN  /\ out' = IF do_echo # 0 /\ m2m_resp = 0
                              THEN <<Echo(c)>> ELSE <<>>
                    /\ IF idx >= AsciiWrap
                       THEN uart_buffer_index' = 0 /\ uart_buffer' = <<>>
                       ELSE /\ uart_buffer_index' = idx
                            /\ uart_buffer' = Append(uart_buffer, c)
                    /\ pl' = pl
    /\ UNCHANGED <<globals, pins, pc, bus, last, run, xf, pr>>

\* the last MagicLen bytes below the cursor are the magic number
MagicAt(buf) ==
    Len(buf) >= MagicLen
    /\ SubSeq(buf, Len(buf) - MagicLen + 1, Len(buf)) = EOL_BIN_MAGIC

\* scan_uart_input in binary mode, getchar_timeout_us returning a byte.
\* The store is made at the cursor whatever the cursor is; ub: what a store
\* past the last element of uart_buffer leads to: the byte lands in the
\* memory that follows the buffer and the function goes on, or the
\* processor halts
ScanBin(ub) ==
    /\ AwaitingByte
    /\ input_mode = MODE_BIN
    /\ wire # <<>>
    /\ wire' = Tail(wire)
    /\ ub = "fault" => uart_buffer_index >= UartCap
    /\ IF ub = "fault"
       THEN /\ pc' = "fault"
            /\ UNCHANGED <<uart_buffer, uart_buffer_index, out, pl>>
       ELSE LET buf == Append(uart_buffer, Head(wire))
                idx == ToU16(uart_buffer_index + 1)
            IN  /\ pc' = pc
                /\ IF idx >= MagicLen /\ MagicAt(buf)
                   THEN /\ uart_buffer_index' = 0
                        /\ uart_buffer' = <<>>
                        /\ out' = <<Text("print_buf_hex", idx - MagicLen)>>
                        /\ pl' = PlCall(SubSeq(buf, 1, idx - MagicLen),
                                        idx - MagicLen)
                   ELSE /\ uart_buffer_index' = idx
                        /\ uart_buffer' = buf
                        /\ out' = <<>>
                        /\ pl' = pl
    /\ UNCHANGED <<globals, pins, bus, last, run, xf, pr>>

\* process_line is at a character of the line that is no space
PlAtChar == pl.active /\ pl.i < pl.len /\ pl.buf[pl.i + 1] # " "
\* process_line is at a space: token is terminated and decoded
PlAtSpace == pl.active /\ pl.i < pl.len /\ pl.buf[pl.i + 1] = " "
\* process_line has left its loop: it decodes end_tok and returns
PlAtEnd == pl.active /\ pl.i >= pl.len

\* token[j] = buf[i]; j++; i++.  ub: what a store past the last element of
\* token leads to: the byte lands on the stack after the array and the loop
\* goes on, or the processor halts
PlChar(ub) ==
    /\ pc = "main"
    /\ PlAtChar
    /\ ub = "fault" => pl.j >= TokenCap
    /\ IF ub = "fault"
       THEN pc' = "fault" /\ pl' = pl
       ELSE /\ pc' = pc
            /\ pl' = [pl EXCEPT !.token = Append(@, pl.buf[pl.i + 1]),
                                !.j = ToU16(@ + 1), !.i = ToU16(@ + 1)]
    /\ UNCHANGED <<globals, pins, out, bus, last, run, xf, pr, framer>>

(***************************************************************************)
(* The adapter fed byte by byte (specification SpecLine): the host opens   *)
(* one session after reset; the loop of main frames it and process_line    *)
(* hands its tokens to decode_token.                                       *)
(***************************************************************************)
\* how far past the end of uart_buffer the host's longest block runs
MaxOver == 2

RECURSIVE Join(_)
Join(toks) ==
    IF toks = <<>> THEN <<>>
    ELSE IF Len(toks) = 1 THEN Head(toks)
    ELSE Head(toks) \o <<" ">> \o Join(Tail(toks))
\* a line typed in ASCII mode, and a block sent in binary mode
Line(toks) == Join(toks) \o <<CR>>
Block(bytes) == bytes \o EOL_BIN_MAGIC
RECURSIVE Cat(_)
Cat(ss) == IF ss = <<>> THEN <<>> ELSE Head(ss) \o Cat(Tail(ss))
Filler(n) == [k \in 1..n |-> "x00"]

T_c8 == HexStr2Lower(200)
T_bytes(n) == S_bytes \o DecStr(n)
T_help == <<"h", "e", "l", "p">>

\* human mode: sends on one line and across lines, tokens after the token
\* that completes a line, noecho in front of other tokens, a correction
\* with backspace, and the commands that fail
SessionHuman ==
    Cat(<<Line(<<S_device>>),
          Line(<<T_bytes(2)>>),
          Line(<<S_send, T_c8, T_c8, S_device>>),
          Line(<<T_bytes(2)>>),
          Line(<<S_sendhold, T_c8>>),
          Line(<<T_c8, T_bytes(1)>>),
          Line(<<S_noecho, S_addr \o DecStr(50), T_help>>),
          Line(<<S_addr0x \o HexStr2(50)>>),
          Line(<<S_tryaddr \o DecStr(50)>>),
          Line(<<S_recv>>),
          Line(<<T_bytes(1), S_recv>>),
          Line(<<T_bytes(1)>>),
          Line(<<S_recv, S_recv>>),
          Line(<<S_end_tok>>),
          Line(<<T_bytes(1)>>),
          Line(<<S_send, <<"0", "1", "2">>, T_c8>>),
          <<"d", "e", "x", BS>>, Line(<<<<"v", "i", "c", "e", "?">>>>),
          Line(<<T_help, S_device>>)>>)

\* machine-to-machine mode, then binary framing: blocks whose last token is
\* and is not followed by a space
SessionM2m ==
    Cat(<<Line(<<S_m2m_resp \o <<"1">>>>),
          Line(<<T_bytes(1)>>),
          Line(<<S_send>>),
          Line(<<T_c8, S_device>>),
          Line(<<S_bin>>),
          Block(Join(<<T_bytes(1), S_sendhold, T_c8, <<>>>>)),
          Block(Join(<<T_bytes(1), S_recv>>)),
          Block(Join(<<S_recv, S_device>>)),
          Block(Join(<<S_send, S_device>>)),
          Block(Join(<<T_c8, <<>>>>)),
          Block(<<>>)>>)

\* binary framing with a block longer than uart_buffer
SessionLong ==
    Cat(<<Line(<<S_bin>>), Block(Filler(UartCap + MaxOver))>>)

\* a token longer than the token buffer of process_line
SessionToken ==
    Cat(<<Line(<<[k \in 1..(TokenCap + MaxOver) |-> "a"], S_device>>),
          Line(<<S_device>>)>>)

\* machine-to-machine mode with the echo flag still on, and a correction
\* with backspace
SessionErase ==
    Cat(<<Line(<<S_m2m_resp \o <<"1">>>>),
          <<"d", "e", "x", BS>>, Line(<<<<"v", "i", "c", "e", "?">>>>),
          Line(<<S_noecho>>),
          <<"d", "e", "x", DEL>>, Line(<<<<"v", "i", "c", "e", "?">>>>)>>)

Sessions ==
    {SessionHuman, SessionM2m, SessionLong, SessionToken, SessionErase}

\* the host sends its session
HostSend(s) ==
    /\ AwaitingByte
    /\ wire = <<>>
    /\ last.kind = "none"
    /\ wire' = s
    /\ UNCHANGED <<globals, pins, pc, out, bus, last, run, xf, pr,
                   uart_buffer, uart_buffer_index, pl>>

NextLine ==
    \/ \E s \in Sessions : HostSend(s)
    \/ ScanTimeout
    \/ ScanAscii
    \/ \E ub \in {"return", "fault"} : ScanBin(ub)
    \/ \E ub \in {"return", "fault"} : PlChar(ub)
    \/ PlAtSpace /\ DeviceQ(pl.token)
    \/ PlAtSpace /\ Bin(pl.token)
    \/ PlAtSpace /\ Bytes(pl.token)
    \/ PlAtSpace /\ SendHold(pl.token)
    \/ PlAtSpace /\ \E devs \in DevSets : TryAddr(pl.token, devs)
    \/ PlAtSpace /\ Send(pl.token)
    \/ PlAtSpace /\ \E rd \in ReadOutcomes :
          \E ub \in RecvUb(rd) :
             \E replies \in RecvReplies(rd, ub), junk \in RecvJunk :
                Recv(pl.token, rd, ub, replies, junk)
    \/ PlAtSpace /\ M2mResp(pl.token)
    \/ PlAtSpace /\ AddrHex(pl.token)
    \/ PlAtSpace /\ AddrDec(pl.token)
    \/ PlAtSpace /\ NoEcho(pl.token)
    \/ PlAtSpace /\ EndTok(pl.token)
    \/ PlAtSpace /\ BadLen(pl.token)
    \/ PlAtSpace /\ \E wok \in BOOLEAN : SendByte(pl.token, wok)
    \/ PlAtSpace /\ Unknown(pl.token)
    \/ PlAtEnd /\ EndOfLine

SpecLine == Init /\ [][NextLine]_vars

\* C14: in binary framing the cursor of the line buffer never exceeds the
\* buffer's capacity and no byte is stored outside the buffer, whatever
\* bytes arrive
C14_CursorWithinBuffer ==
    input_mode = MODE_BIN
    => uart_buffer_index <= UartCap /\ Len(uart_buffer) <= UartCap

\* C15: no input is fatal: whatever bytes the host sends, the processor is
\* never halted, so that after every line or block the loop of main comes
\* back to its call of scan_uart_input
C15_NoInputIsFatal == pc # "fault"

(***************************************************************************)
(* The decoder under a host that declares counts up to MaxSend and sends   *)
(* every command, token by token, in any order (specification SpecSend).   *)
(***************************************************************************)
\* the largest count the host declares with bytes:
MaxSend == 2

NextSend ==
    \/ DeviceQ(S_device)
    \/ Bin(S_bin)
    \/ \E n \in 0..MaxSend : Bytes(T_bytes(n))
    \/ SendHold(S_sendhold)
    \/ \E devs \in DevSets : TryAddr(S_tryaddr \o DecStr(50), devs)
    \/ Send(S_send)
    \/ \E rd \in ReadOutcomes :
          \E ub \in RecvUb(rd) :
             \E replies \in RecvReplies(rd, ub), junk \in RecvJunk :
                Recv(S_recv, rd, ub, replies, junk)
    \/ \E on \in {"0", "1"} : M2mResp(S_m2m_resp \o <<on>>)
    \/ AddrHex(S_addr0x \o HexStr2(50))
    \/ AddrDec(S_addr \o DecStr(200))
    \/ NoEcho(S_noecho)
    \/ EndTok(S_end_tok)
    \/ BadLen(<<"0", "1", "2">>)
    \/ \E wok \in BOOLEAN : byte_buffer_index <= MaxSend /\ SendByte(T_c8, wok)
    \/ Unknown(T_help)
    \/ EndOfLine

SpecSend == Init /\ [][NextSend]_vars

(***************************************************************************)
(* device? and the hold flag (specification SpecSend).                     *)
(***************************************************************************)
\* C16: after device?, whatever the state it was issued in, no send is
\* pending, the byte count and the cursor are zero and the hold flag is
\* off; the line is complete; and the step leaves input_mode, m2m_resp,
\* do_echo and i2c_addr as they were
C16_DeviceResets ==
    /\ [](last.kind = "device?"
          => /\ token_progress = TOKEN_PROGRESS_NONE
             /\ expected_num = 0
             /\ byte_buffer_index = 0
             /\ do_repeated_start = 0
             /\ last.res = TOKEN_RESULT_LINE_COMPLETE)
    /\ [][last'.kind = "device?"
          => UNCHANGED <<input_mode, m2m_resp, do_echo, i2c_addr>>]_vars

\* C16 witness: device? has been decoded in binary framing and
\* machine-to-machine mode with echo off and an address set, after a byte
\* had been put in the buffer
C16_Witness ==
    /\ last.kind = "device?"
    /\ input_mode = MODE_BIN
    /\ m2m_resp = 1
    /\ do_echo = 0
    /\ i2c_addr = 200
    /\ byte_buffer[0] = 200
    /\ token_progress = TOKEN_PROGRESS_NONE

(***************************************************************************)
(* The two spellings of an address (specification SpecAddr): the token is  *)
(* the one the host is about to send; the decoder is idle or has a send    *)
(* pending, with M2M responses on or off.                                  *)
(***************************************************************************)
\* the largest address the host spells
MaxAddr == 127

\* the spellings of the address v: two hex digits in either case, one hex
\* digit when that is enough, and decimal
AddrHexSpellings(v) ==
    {S_addr0x \o HexStr2(v), S_addr0x \o HexStr2Lower(v)}
    \cup (IF v < 16 THEN {S_addr0x \o <<HexUpper[v + 1]>>} ELSE {})
AddrDecSpelling(v) == S_addr \o DecStr(v)
AddrSpellings(v) == AddrHexSpellings(v) \cup {AddrDecSpelling(v)}

InitAddr ==
    /\ input_mode = MODE_ASCII
    /\ m2m_resp \in {0, 1}
    /\ do_echo = 1
    /\ \E e \in ProbeEntries :
          /\ i2c_addr = e[1]
          /\ expected_num = e[2]
          /\ token_progress = e[3]
          /\ byte_buffer_index = e[4]
          /\ do_repeated_start = e[5]
          /\ byte_buffer = [k \in 0..(BufCap - 1) |-> IF k < e[4] THEN 200 ELSE 0]
    /\ pins = PinsAfterSetup
    /\ pc = "main"
    /\ out = <<>>
    /\ bus = <<>>
    /\ last = [kind |-> "none", res |-> TOKEN_RESULT_LINE_COMPLETE, ack |-> NoAck]
    /\ run = NoRun
    /\ xf = XferIdle
    /\ pr = ProbeIdle
    /\ uart_buffer = <<>>
    /\ uart_buffer_index = 0
    /\ \E v \in 0..MaxAddr : wire \in AddrSpellings(v)
    /\ pl = PlIdle

NextAddr ==
    \/ AddrHex(wire)
    \/ AddrDec(wire)

SpecAddr == InitAddr /\ [][NextAddr]_vars

\* the address a token spells
AddrSpelled(tok) == CHOOSE v \in 0..MaxAddr : tok \in AddrSpellings(v)

\* C17: for every address v up to MaxAddr, addr:0x<hex of v> and addr:<v>
\* both leave i2c_addr = v, complete the line, and change nothing else of
\* the session
C17_SpellingsAgree ==
    /\ [](last.kind \in {"addr0x", "addr"}
          => /\ i2c_addr = AddrSpelled(wire)
             /\ last.res = TOKEN_RESULT_LINE_COMPLETE)
    /\ [][last'.kind \in {"addr0x", "addr"}
          => UNCHANGED <<input_mode, m2m_resp, do_echo, expected_num,
                         byte_buffer, byte_buffer_index, token_progress,
                         do_repeated_start>>]_vars

\* C17 witness: addr:0x32 has been decoded while a send was pending and the
\* address is 50
C17_Witness ==
    /\ last.kind = "addr0x"
    /\ wire = S_addr0x \o <<"3", "2">>
    /\ i2c_addr = 50
    /\ token_progress = TOKEN_PROGRESS_SEND
    /\ byte_buffer_index = 1

\* C18: i2c_addr is a 7-bit address in every reachable state, whatever
\* numeric arguments the addr: commands were given (specification Spec)
C18_SevenBitAddress == i2c_addr \in 0..127

(***************************************************************************)
(* The order in which process_line decodes (specification SpecLine).       *)
(***************************************************************************)
\* the token being assembled is the word of the line that ends at the cursor
PlTokenIsWord ==
    pl.active =>
        /\ pl.j <= pl.i
        /\ pl.token = SubSeq(pl.buf, pl.i - pl.j + 1, pl.i)
        /\ \A k \in 1..Len(pl.token) : pl.token[k] # " "
        /\ pl.i = pl.j \/ pl.buf[pl.i - pl.j] = " "

\* what decode_token("end_tok") is to write
EndReport ==
    IF token_progress # TOKEN_PROGRESS_SEND THEN <<>>
    ELSE IF m2m_resp # 0 THEN <<Ctl(M2M_RESPONSE_CONTINUE_CHAR)>>
    ELSE <<Text("Remaining bytes expected", expected_num - byte_buffer_index)>>

StartsSend(kind) == last'.kind = kind /\ last'.res = TOKEN_RESULT_OK

\* C20: send+hold starts a send with the hold flag on
\* and send starts one with the flag off; while the send stays in progress
\* no other step changes the flag; the write that completes the send is made
\* to the current i2c_addr with hold on iff the flag is on; and after the
\* write, whether it succeeded or failed, the flag is off and no send is in
\* progress
C20_HoldFollowsStarter ==
    [][/\ StartsSend("send+hold")
          => do_repeated_start' = 1 /\ token_progress' = TOKEN_PROGRESS_SEND
       /\ StartsSend("send")
          => do_repeated_start' = 0 /\ token_progress' = TOKEN_PROGRESS_SEND
       /\ (/\ token_progress = TOKEN_PROGRESS_SEND
           /\ token_progress' = TOKEN_PROGRESS_SEND
           /\ ~StartsSend("send+hold")
           /\ ~StartsSend("send"))
          => do_repeated_start' = do_repeated_start
       /\ (bus' # <<>> /\ bus'[1].op = "write")
          => /\ token_progress = TOKEN_PROGRESS_SEND
             /\ bus'[1].hold = (do_repeated_start = 1)
             /\ bus'[1].addr = i2c_addr
             /\ i2c_addr' = i2c_addr
             /\ do_repeated_start' = 0
             /\ token_progress' = TOKEN_PROGRESS_NONE]_vars

\* C20 witness: a send started by send+hold was completed by a write to
\* address 200 that held the bus and failed, and the flag is off
C20_Witness ==
    /\ bus # <<>>
    /\ bus[1].op = "write"
    /\ bus[1].hold
    /\ ~bus[1].ok
    /\ bus[1].addr = 200
    /\ do_repeated_start = 0

(***************************************************************************)
(* The token buffer of process_line (specification SpecLine).              *)
(***************************************************************************)
\* C21: while process_line splits a line, the index of its next store into
\* token (a character at token[j] = buf[i], or the terminator at
\* token[j] = 0) is at most TokenCap - 1
C21_TokenIndexBounded ==
    (pl.active /\ pl.i < pl.len) => pl.j <= TokenCap - 1

(***************************************************************************)
(* The echo of scan_uart_input in ASCII mode (specification SpecLine).     *)
(***************************************************************************)
EchoItems(o) == {i \in 1..Len(o) : o[i].k = "echo"}
\* scan_uart_input takes a byte in ASCII mode
TypedAscii ==
    AwaitingByte /\ input_mode = MODE_ASCII /\ wire # <<>> /\ wire' = Tail(wire)

\* C22: in ASCII mode scan_uart_input writes echo for a byte only when
\* do_echo is on and m2m_resp is off; and a carriage return, echoed or not,
\* hands the line with its closing space to process_line
C22_EchoOnlyWhenOn ==
    [][TypedAscii
       => /\ EchoItems(out') # {} => (do_echo # 0 /\ m2m_resp = 0)
          /\ Head(wire) = CR
             => /\ pl'.active
                /\ pl'.buf = Append(uart_buffer, " ")
                /\ uart_buffer_index' = 0]_vars

(***************************************************************************)
(* SpecWave: bitbang_i2c_addr for every address up to MaxAddr, with no     *)
(* device on the bus or with the addressed device on it, a step per SDK    *)
(* or helper call.                                                         *)
(***************************************************************************)
InitWave ==
    /\ input_mode = MODE_ASCII
    /\ m2m_resp \in {0, 1}
    /\ do_echo = 1
    /\ i2c_addr = 0
    /\ expected_num = 0
    /\ token_progress = TOKEN_PROGRESS_NONE
    /\ byte_buffer_index = 0
    /\ do_repeated_start = 0
    /\ byte_buffer = [k \in 0..(BufCap - 1) |-> 0]
    /\ pins = PinsAfterSetup
    /\ pc = "probe"
    /\ out = <<>>
    /\ bus = <<>>
    /\ last = [kind |-> "none", res |-> TOKEN_RESULT_LINE_COMPLETE, ack |-> NoAck]
    /\ run = NoRun
    /\ xf = XferIdle
    /\ \E val \in 0..MaxAddr, present \in BOOLEAN :
          pr = ProbeStart(PinsAfterSetup, val,
                          IF present THEN {val} ELSE NoDevs)
    /\ uart_buffer = <<>>
    /\ uart_buffer_index = 0
    /\ wire = <<>>
    /\ pl = PlIdle

SpecWave == InitWave /\ [][NextProbe]_vars

(***************************************************************************)
(* The waveform of the probe (SpecWave).                                   *)
(***************************************************************************)
SevenBit == 0..127
\* bitbang_i2c_addr has made its last call
ProbeDone == pr.wave # <<>> /\ pr.at > Len(ProbeProgram(pr.val))
\* the entries of the wave at which the clock line fell
ClockFalls(w) ==
    {k \in 2..Len(w) : w[k][4] = 0 /\ w[k - 1][4] = 1}
\* the n-th rise of the clock line
NthRise(w, n) ==
    CHOOSE k \in ClockRises(w) :
        Cardinality({j \in ClockRises(w) : j <= k}) = n
\* the probe's own data pin drives the line low at entry k: its last
\* helper call on the pin was pulldown_gpio
SdaCallsUpTo(w, k) ==
    {j \in 1..k : w[j][2] = I2C_SDA_PIN
                  /\ w[j][1] \in {"gpio_init", "pullup_gpio", "pulldown_gpio"}}
SdaDrivenLowAt(w, k) ==
    /\ SdaCallsUpTo(w, k) # {}
    /\ LET j == CHOOSE x \in SdaCallsUpTo(w, k) :
                   \A y \in SdaCallsUpTo(w, k) : y <= x
       IN  w[j][1] = "pulldown_gpio"
\* entry k is the start condition: the probe pulls the data line low with
\* the clock line high, both lines having been high, then pulls the clock
\* line low
StartAt(w, k) ==
    /\ k \in 2..(Len(w) - 1)
    /\ w[k - 1][3] = 1 /\ w[k - 1][4] = 1
    /\ w[k][1] = "pulldown_gpio" /\ w[k][2] = I2C_SDA_PIN
    /\ w[k][3] = 0 /\ w[k][4] = 1
    /\ w[k + 1][1] = "pulldown_gpio" /\ w[k + 1][2] = I2C_SCL_PIN
    /\ w[k + 1][4] = 0
    /\ \A j \in 1..k : w[j][4] = 1
\* bit number i (1 first, the most significant) of (a << 1) | 1
ReadAddrBit(a, i) == ((2 * a + 1) \div (2 ^ (8 - i))) % 2

\* C23: for every 7-bit address the probe first makes a start condition,
\* then puts the 8 bits of (a << 1) | 1 on the data line, most significant
\* first, one per clock pulse, changing its data pin only while the clock
\* line is low before and after the change; gpio_get samples the data line
\* in the ninth clock pulse, with the probe's data pin released
C23_AddressClockedOut ==
    /\ []((ProbeDone /\ pr.val \in SevenBit) =>
            LET w == pr.wave
            IN  /\ \E s \in 1..Len(w) :
                      /\ StartAt(w, s)
                      /\ \A k \in ClockRises(w) \cup ClockFalls(w) : k > s
                /\ Cardinality(ClockRises(w)) >= 9
                /\ \A i \in 1..8 : w[NthRise(w, i)][3] = ReadAddrBit(pr.val, i)
                /\ \A i \in 1..9 :
                      Cardinality({k \in ClockFalls(w) :
                                     /\ k > NthRise(w, i)
                                     /\ Cardinality(ClockRises(w)) > i
                                        => k < NthRise(w, i + 1)}) = 1
                /\ \E g \in 1..Len(w) :
                      /\ w[g][1] = "gpio_get"
                      /\ w[g][4] = 1
                      /\ Cardinality({j \in ClockRises(w) : j < g}) = 9
                      /\ ~SdaDrivenLowAt(w, g)
                      /\ \A h \in 1..Len(w) : w[h][1] = "gpio_get" => h = g)
    /\ [][(/\ pr.val \in SevenBit
           /\ pr.started
           /\ pr.ack = NoAck
           /\ DrivesLow(pr.pins[I2C_SDA_PIN]) # DrivesLow(pr'.pins[I2C_SDA_PIN]))
          => (SclLevel(pr) = 0 /\ SclLevel(pr') = 0)]_vars

\* C23 witness: the probe of address 85 has returned with the addressed
\* device present: the device saw the bits 1010 1011 and the sample was low
C23_Witness ==
    /\ pc = "main"
    /\ ProbeDone
    /\ pr.val = 85
    /\ pr.dev = {85}
    /\ SubSeq(pr.seen, 1, 8) = <<1, 0, 1, 0, 1, 0, 1, 1>>
    /\ pr.ack = <<0>>

\* entry k is a stop condition made by the probe: with the clock line high
\* before and after, the probe releases a data pin it was driving low
StopAt(w, k) ==
    /\ k \in 2..Len(w)
    /\ w[k][1] = "pullup_gpio" /\ w[k][2] = I2C_SDA_PIN
    /\ w[k - 1][4] = 1 /\ w[k][4] = 1
    /\ SdaDrivenLowAt(w, k - 1)

\* C24: on every run of the probe, after gpio_get has sampled the
\* acknowledge bit and before i2c_init, the probe makes a stop condition:
\* it takes the data line from driven low to released with the clock line
\* released high
C24_StopDriven ==
    ProbeDone =>
        \E g, k, r \in 1..Len(pr.wave) :
            /\ pr.wave[g][1] = "gpio_get"
            /\ pr.wave[r][1] = "i2c_init"
            /\ g < k /\ k < r
            /\ StopAt(pr.wave, k)

(***************************************************************************)
(* The byte counts handed to the bus (specification Spec).                 *)
(***************************************************************************)
\* C25: every read or write the decoder asks of the bus has a byte count
\* from 1 to BufCap, the capacity of byte_buffer
C25_TransferWithinBuffer ==
    \A k \in 1..Len(bus) : bus[k].len \in 1..BufCap

=============================================================================
